---------------------------- MODULE Spec2Model ----------------------------
(***************************************************************************)
(* The enrichment-aware feed aggregation pipeline of dj-newswire           *)
(* (src/unnamed/part_000): feed ingestion, URL normalisation,              *)
(* deduplication by link, ranking, bounded-concurrency enrichment,         *)
(* re-ranking, truncation and payload assembly.                            *)
(* The pipeline of src/scripts/build-feeds.mjs, which has no enrichment,   *)
(* is modelled at the end as a function of the same inputs.                *)
(*                                                                         *)
(* Data representation.                                                    *)
(*  - A URL string is a sequence of tokens: "h:" and "H:" stand for the    *)
(*    scheme and host "https://h" and "HTTPS://H", "/a", "/img" ... for    *)
(*    path segments, "&", "&amp;", "&#038;", "&#x26;", "&#X26;" for an     *)
(*    ampersand and its escaped spellings, " " for white space and         *)
(*    "/emoji" for the text "s.w.org/images/core/emoji".  <<>> is "".      *)
(*  - A date string is a sequence of one token, "" the empty sequence;    *)
(*    Date.parse is the table DateParse, in seconds instead of             *)
(*    milliseconds so that values fit TLC's integers.                      *)
(*  - NewsItem objects live in the array items and are mutated in place    *)
(*    by enrichOne; byLink, merged, toEnrich, rest and payload hold        *)
(*    references to them, modelled as indices into items.                  *)
(***************************************************************************)
EXTENDS Integers, Sequences, FiniteSets, TLC

(***************************************************************************)
(* Bounds of the model and scaled program constants.                       *)
(***************************************************************************)
\* longest list of raw items a parsed feed holds in the model
MaxFeedItems == 2
\* src/unnamed/part_000:11 sets 200; scaled down to the model's item counts
MAX_ITEMS == 3
\* src/unnamed/part_000:15 sets 120; scaled down
ENRICH_LIMIT == 3
\* src/unnamed/part_000:18 sets 4; scaled down
ENRICH_CONCURRENCY == 2
\* pickCategories keeps this many categories
MaxCategories == 12
\* pickExcerpt: longest text kept whole, and the length of the cut text
ExcerptMax == 240
ExcerptCut == 237

(***************************************************************************)
(* Strings                                                                 *)
(***************************************************************************)
\* a value that is not a string (an object the parser produced for an
\* element that carries attributes); it has no trim method
OBJ == <<"{object}">>

RECURSIVE trimStart(_)
trimStart(s) == IF s # <<>> /\ Head(s) = " " THEN trimStart(Tail(s)) ELSE s

RECURSIVE trimEnd(_)
trimEnd(s) ==
    IF s # <<>> /\ s[Len(s)] = " " THEN trimEnd(SubSeq(s, 1, Len(s) - 1)) ELSE s

trim(s) == trimEnd(trimStart(s))

\* String.prototype.toLowerCase on the tokens and strings of the model
toLowerCase(c) ==
    CASE c = "H:" -> "h:"
      [] c = "/EMOJI" -> "/emoji"
      [] c = "&#X26;" -> "&#x26;"
      [] c = "Discos" -> "discos"
      [] c = "DISCOS" -> "discos"
      [] OTHER -> c

decodeToken(c) ==
    CASE c = "&amp;" -> "&"
      [] c = "&#038;" -> "&"
      [] toLowerCase(c) = "&#x26;" -> "&"
      [] OTHER -> c

decodeUrlEntities(u) == [i \in 1..Len(u) |-> decodeToken(u[i])]

\* new URL(s) succeeds on an absolute URL: scheme and host first, no
\* white space left inside the host part
urlParses(s) == s # <<>> /\ toLowerCase(s[1]) = "h:"

\* URL.prototype.toString: the serialised URL has scheme and host in lower
\* case and white space percent-encoded
urlToString(s) ==
    [i \in 1..Len(s) |->
        IF i = 1 THEN toLowerCase(s[1]) ELSE IF s[i] = " " THEN "%20" ELSE s[i]]

\* normalizeUrl throws a TypeError on a value without trim
normalizeUrlThrows(u) == u = OBJ

normalizeUrl(u) ==
    LET cleaned == decodeUrlEntities(trim(u))
    IN  IF urlParses(cleaned) THEN urlToString(cleaned) ELSE cleaned

NaN == [finite |-> FALSE, val |-> 0]
Num(n) == [finite |-> TRUE, val |-> n]

\* Date.parse, in seconds since the epoch; a date string is a sequence of
\* one token, "" the empty sequence
DateParse(s) ==
    CASE s = <<"2024-01-01T00:00:00Z">> -> Num(1704067200)
      [] s = <<"Mon, 01 Jan 2024 00:00:00 GMT">> -> Num(1704067200)
      [] s = <<"2025-01-01T00:00:00Z">> -> Num(1735689600)
      [] s = <<"1970-01-01T00:00:00Z">> -> Num(0)
      [] s = <<"1969-12-31T23:59:59Z">> -> Num(-1)
      [] s = <<"1969-12-31T23:59:58Z">> -> Num(-2)
      [] OTHER -> NaN

toTimestamp(dateStr) ==
    LET t == DateParse(dateStr) IN IF t.finite THEN t.val ELSE 0

isJunkImage(url) == \E i \in 1..Len(url) : toLowerCase(url[i]) = "/emoji"

\* sha1 of `${feed.id}|${link}`: injective on the model's inputs
sha1(feedId, link) == <<feedId, link>>

(***************************************************************************)
(* Raw feed items, as the feed parser hands them over                      *)
(***************************************************************************)
Undef == [t |-> "undef"]
Arr(s) == [t |-> "arr", v |-> s]
Str(s) == [t |-> "str", v |-> s]
\* JavaScript truthiness of a categories value: an array is truthy even
\* when empty, a string when not empty
truthy(x) == x.t = "arr" \/ (x.t = "str" /\ x.v # "")

\* String.prototype.trim on the titles and categories of the model
trimStr(s) ==
    CASE s = " discos " -> "discos"
      [] s = " t2 " -> "t2"
      [] s = "  " -> ""
      [] OTHER -> s

\* an HTML fragment: its length, the src of its first <img> tag and the
\* length of its text once tags and white space runs are removed
NoHtml == [len |-> 0, img |-> <<>>, textLen |-> 0]
NoMedia == [dollarUrl |-> <<>>, urlIsString |-> FALSE, url |-> <<>>]

firstImageFromHtml(html) == html.img

stripHtml(html) == html.textLen

\* item.contentEncoded || item["content:encoded"] || item.content ||
\* item.summary || ""
bestHtml(item) ==
    IF item.contentEncoded.len > 0 THEN item.contentEncoded
    ELSE IF item.contentColonEncoded.len > 0 THEN item.contentColonEncoded
    ELSE IF item.content.len > 0 THEN item.content
    ELSE item.summary

pickImage(item) ==
    IF item.mediaContent.dollarUrl # <<>> THEN normalizeUrl(item.mediaContent.dollarUrl)
    ELSE IF item.mediaContent.urlIsString THEN normalizeUrl(item.mediaContent.url)
    ELSE IF item.mediaThumbnail.dollarUrl # <<>>
        THEN normalizeUrl(item.mediaThumbnail.dollarUrl)
    ELSE IF item.mediaThumbnail.urlIsString THEN normalizeUrl(item.mediaThumbnail.url)
    ELSE IF item.enclosure # <<>> THEN normalizeUrl(item.enclosure)
    ELSE LET img == firstImageFromHtml(bestHtml(item))
         IN  IF img # <<>> THEN normalizeUrl(img) ELSE <<>>

\* the excerpt, as the number of characters it holds
pickExcerpt(item) ==
    LET text == stripHtml(bestHtml(item))
    IN  IF text = 0 THEN 0
        ELSE IF text > ExcerptMax THEN ExcerptCut + 1 ELSE text

pickCategories(item) ==
    LET raw == IF truthy(item.categories) THEN item.categories
               ELSE IF truthy(item.category) THEN item.category
               ELSE Arr(<<>>)
        arr == IF raw.t = "arr" THEN raw.v ELSE <<raw.v>>
        mapped == [i \in 1..Len(arr) |-> trimStr(arr[i])]
        kept == SelectSeq(mapped, LAMBDA c : c # "")
    IN  SubSeq(kept, 1, IF Len(kept) < MaxCategories THEN Len(kept) ELSE MaxCategories)

\* it.link || it.guid || ""
linkOrGuid(it) == IF it.link # <<>> THEN it.link ELSE it.guid

\* it.isoDate || it.pubDate || it.published || ""
publishedOf(it) ==
    IF it.isoDate # <<>> THEN it.isoDate
    ELSE IF it.pubDate # <<>> THEN it.pubDate
    ELSE it.published

hasDiscosCategory(categories) ==
    \E i \in 1..Len(categories) : toLowerCase(categories[i]) = "discos"

\* the NewsItem main builds from the raw item it of the feed
buildItem(feed, it) ==
    LET link == normalizeUrl(linkOrGuid(it))
        published == publishedOf(it)
        image == pickImage(it)
    IN  [id |-> sha1(feed.id, link),
         title |-> trimStr(it.title),
         link |-> link,
         published |-> published,
         publishedTs |-> toTimestamp(published),
         sourceId |-> feed.id,
         sourceName |-> feed.name,
         categories |-> pickCategories(it),
         image |-> IF isJunkImage(image) THEN <<>> ELSE image,
         excerpt |-> pickExcerpt(it)]

\* whether the raw item is left out without an error: no link, or the
\* category filter of the source "mondosonoro"
skipsItem(feed, it) ==
    \/ normalizeUrl(linkOrGuid(it)) = <<>>
    \/ feed.id = "mondosonoro" /\ ~hasDiscosCategory(pickCategories(it))

\* whether building the raw item raises an exception
itemThrows(it) == normalizeUrlThrows(linkOrGuid(it))

\* the body of the loop over parsed.items: the items pushed, and whether an
\* exception ended the loop
RECURSIVE processItems(_, _, _)
processItems(feed, raw, acc) ==
    IF raw = <<>> THEN [pushed |-> acc, threw |-> FALSE]
    ELSE IF itemThrows(Head(raw)) THEN [pushed |-> acc, threw |-> TRUE]
    ELSE IF skipsItem(feed, Head(raw)) THEN processItems(feed, Tail(raw), acc)
    ELSE processItems(feed, Tail(raw), Append(acc, buildItem(feed, Head(raw))))

(***************************************************************************)
(* The inputs of the model: feed sources and what their URLs return        *)
(***************************************************************************)
Raw0 ==
    [link |-> <<>>, guid |-> <<>>, title |-> "", isoDate |-> <<>>, pubDate |-> <<>>,
     published |-> <<>>, mediaContent |-> NoMedia, mediaThumbnail |-> NoMedia,
     enclosure |-> <<>>, contentEncoded |-> NoHtml, contentColonEncoded |-> NoHtml,
     content |-> NoHtml, summary |-> NoHtml, categories |-> Undef, category |-> Undef]

\* a complete item: dated, with an image
R1 ==
    [Raw0 EXCEPT !.link = <<"h:", "/a">>, !.title = "t1",
                 !.isoDate = <<"2024-01-01T00:00:00Z">>,
                 !.enclosure = <<" ", "h:", "/img">>,
                 !.categories = Arr(<<"news">>)]
\* no date, no image; the query string of its link is escaped as &amp;
R2 ==
    [Raw0 EXCEPT !.link = <<"h:", "/q", "&amp;", "/b">>, !.title = " t2 ",
                 !.category = Str(" discos ")]
\* the link of R2 escaped as &#038; and with an upper case host; same
\* instant as R1 in another date format; its thumbnail is an emoji image
R3 ==
    [Raw0 EXCEPT !.link = <<"H:", "/q", "&#038;", "/b">>, !.title = "t3",
                 !.pubDate = <<"Mon, 01 Jan 2024 00:00:00 GMT">>,
                 !.mediaThumbnail = [NoMedia EXCEPT !.dollarUrl = <<"h:", "/EMOJI">>],
                 !.categories = Arr(<<"Discos">>)]
\* link taken from the guid, dated before 1970, a media:content whose url
\* is the empty string, a long text, and a thirteenth category "discos"
R4 ==
    [Raw0 EXCEPT !.guid = <<"h:", "/c">>, !.title = "t4",
                 !.isoDate = <<"1969-12-31T23:59:59Z">>,
                 !.mediaContent = [NoMedia EXCEPT !.urlIsString = TRUE],
                 !.enclosure = <<"h:", "/never.jpg">>,
                 !.content = [len |-> 300, img |-> <<>>, textLen |-> 250],
                 !.categories = Arr(<<"news", "news", "news", "news", "news", "news",
                                      "news", "news", "news", "news", "news", "news",
                                      "discos">>)]
\* the link element carries attributes: the parser yields an object
R5 == [Raw0 EXCEPT !.link = OBJ, !.title = "t5"]
\* dated at the epoch itself; its only image is an emoji image
R6 ==
    [Raw0 EXCEPT !.link = <<"h:", "/d">>, !.title = "t6",
                 !.isoDate = <<"1970-01-01T00:00:00Z">>,
                 !.mediaThumbnail =
                     [NoMedia EXCEPT !.dollarUrl = <<"h:", "/emoji", "/x.png">>],
                 !.categories = Arr(<<"DISCOS", "  ">>)]

\* the link of R2 escaped as &#x26;; dated, its image is the first <img>
\* of its summary
R7 ==
    [Raw0 EXCEPT !.link = <<"h:", "/q", "&#x26;", "/b">>, !.title = "t7",
                 !.isoDate = <<"2025-01-01T00:00:00Z">>,
                 !.summary = [len |-> 80, img |-> <<"h:", "/pic", "&#X26;", "/w">>,
                              textLen |-> 40],
                 !.category = Arr(<<"discos">>)]

\* the article streams of two sites
Streams == {<<R1, R4, R2, R5>>, <<R3, R7, R6, R1>>}

\* a feed document is a window of a stream: the lists of at most
\* MaxFeedItems consecutive raw items a parsed feed can hold
windows(stream) ==
    {SubSeq(stream, a, b) : a \in 1..Len(stream), b \in 0..Len(stream)}

FeedDocs == {d \in UNION {windows(st) : st \in Streams} : Len(d) <= MaxFeedItems}

Mixmag == [id |-> "mixmag", name |-> "Mixmag", url |-> <<"h:", "/mixmag.xml">>]
Mondosonoro ==
    [id |-> "mondosonoro", name |-> "Mondo Sonoro", url |-> <<"h:", "/mondo.xml">>]

\* the contents feeds.json can have
FeedLists == {<<Mixmag, Mondosonoro>>, <<Mondosonoro, Mixmag>>}

IngestError(feed, message) ==
    [sourceId |-> feed.id, sourceName |-> feed.name, url |-> feed.url,
     error |-> message]

(***************************************************************************)
(* Deduplication and ranking                                               *)
(***************************************************************************)
\* byLink as the list of the Map's values in insertion order: the first
\* item of each link
RECURSIVE dedupeFrom(_, _, _)
dedupeFrom(its, i, acc) ==
    IF i > Len(its) THEN acc
    ELSE IF \E j \in 1..Len(acc) : its[acc[j]].link = its[i].link
         THEN dedupeFrom(its, i + 1, acc)
         ELSE dedupeFrom(its, i + 1, Append(acc, i))

\* no deduplication: every item is kept
dedupeKeepsAll(its) == [i \in 1..Len(its) |-> i]

\* the last item of each link is kept instead of the first
dedupeLastWins(its) ==
    SelectSeq([i \in 1..Len(its) |-> i],
              LAMBDA i : \A j \in (i + 1)..Len(its) : its[j].link # its[i].link)

dedupe(its) == dedupeFrom(its, 1, <<>>)

\* the comparator (a, b) => (b.publishedTs || 0) - (a.publishedTs || 0)
orZero(n) == IF n = 0 THEN 0 ELSE n

\* the comparator with its operands exchanged: ascending order
compareTsAscending(a, b) == orZero(a.publishedTs) - orZero(b.publishedTs)

compareTs(a, b) == orZero(b.publishedTs) - orZero(a.publishedTs)

\* Array.prototype.sort is stable: x goes after every element that does
\* not compare greater than it
\* an insertion that is not stable: x goes before the elements it ties with
RECURSIVE insertSortedUnstable(_, _, _)
insertSortedUnstable(its, sorted, x) ==
    IF sorted = <<>> THEN <<x>>
    ELSE IF compareTs(its[Head(sorted)], its[x]) < 0
         THEN <<Head(sorted)>> \o insertSortedUnstable(its, Tail(sorted), x)
         ELSE <<x>> \o sorted

RECURSIVE insertSorted(_, _, _)
insertSorted(its, sorted, x) ==
    IF sorted = <<>> THEN <<x>>
    ELSE IF compareTs(its[Head(sorted)], its[x]) <= 0
         THEN <<Head(sorted)>> \o insertSorted(its, Tail(sorted), x)
         ELSE <<x>> \o sorted

RECURSIVE sortFrom(_, _, _, _)
sortFrom(its, refs, i, acc) ==
    IF i > Len(refs) THEN acc
    ELSE sortFrom(its, refs, i + 1, insertSorted(its, acc, refs[i]))

sortByTs(its, refs) == sortFrom(its, refs, 1, <<>>)

\* Array.prototype.slice(from, to) with 0-based bounds
slice(s, from, to) ==
    SubSeq(s, from + 1, IF to < Len(s) THEN to ELSE Len(s))

(***************************************************************************)
(* Article pages and metadata extraction                                   *)
(***************************************************************************)
\* a <meta> tag: the attribute naming its key, the key, the content, and
\* whether the content attribute is written before the key attribute
Meta(attr, key, content) ==
    [attr |-> attr, key |-> key, content |-> content, contentFirst |-> FALSE]

\* whether the regular expression of extractMeta matches the tag: key in a
\* property or name attribute, then a content attribute that is not empty
metaMatches(tag, key) ==
    /\ tag.attr \in {"property", "name"}
    /\ tag.key = key
    /\ ~tag.contentFirst
    /\ tag.content # <<>>

RECURSIVE extractMeta(_, _)
extractMeta(html, key) ==
    IF html = <<>> THEN <<>>
    ELSE IF metaMatches(Head(html), key) THEN Head(html).content
    ELSE extractMeta(Tail(html), key)

\* new URL(u, pageUrl).toString(); pageUrl is used when u is relative
absolutizeMaybe(relativeOrAbs, pageUrl) ==
    LET u == normalizeUrl(relativeOrAbs)
    IN  IF u = <<>> THEN <<>>
        ELSE IF urlParses(u) THEN urlToString(u)
        ELSE IF urlParses(pageUrl) THEN urlToString(<<pageUrl[1]>> \o u)
        ELSE u

\* a || b for strings
orElse(a, b) == IF a # <<>> THEN a ELSE b

needsImage(item) == item.image = <<>> \/ isJunkImage(item.image)

\* a test of the date that holds for every item
needsDateAlways(item) == TRUE

needsDate(item) == item.publishedTs = 0

\* the image enrichment assigning the image found to item.link
enrichImageIntoLink(item, html) ==
    LET og == orElse(extractMeta(html, "og:image"),
              orElse(extractMeta(html, "og:image:url"),
              orElse(extractMeta(html, "twitter:image"),
                     extractMeta(html, "twitter:image:src"))))
        img == absolutizeMaybe(og, item.link)
    IN  IF img # <<>> /\ ~isJunkImage(img) THEN [item EXCEPT !.link = img] ELSE item

\* the image enrichment without the test for junk images
enrichImageAcceptsJunk(item, html) ==
    LET og == orElse(extractMeta(html, "og:image"),
              orElse(extractMeta(html, "og:image:url"),
              orElse(extractMeta(html, "twitter:image"),
                     extractMeta(html, "twitter:image:src"))))
        img == absolutizeMaybe(og, item.link)
    IN  IF img # <<>> THEN [item EXCEPT !.image = img] ELSE item

\* the image enrichment of enrichOne
enrichImage(item, html) ==
    LET og == orElse(extractMeta(html, "og:image"),
              orElse(extractMeta(html, "og:image:url"),
              orElse(extractMeta(html, "twitter:image"),
                     extractMeta(html, "twitter:image:src"))))
        img == absolutizeMaybe(og, item.link)
    IN  IF img # <<>> /\ ~isJunkImage(img) THEN [item EXCEPT !.image = img] ELSE item

\* the date enrichment of enrichOne
enrichDate(item, html) ==
    LET ptime == orElse(extractMeta(html, "article:published_time"),
                 orElse(extractMeta(html, "og:updated_time"),
                        extractMeta(html, "article:modified_time")))
        ts == toTimestamp(ptime)
    IN  IF ts # 0 THEN [item EXCEPT !.published = ptime, !.publishedTs = ts] ELSE item

\* the item after the try block of enrichOne ran to its end on the page
enrichFrom(item, html) ==
    LET withImage == IF needsImage(item) THEN enrichImage(item, html) ELSE item
    IN  IF needsDate(item) THEN enrichDate(withImage, html) ELSE withImage

\* what fetchText gave enrichOne: the text of the page, or an exception
FetchError == [ok |-> FALSE, html |-> <<>>]
Fetched(html) == [ok |-> TRUE, html |-> html]

\* enrichOne with a catch that resets the date fields of the item
enrichOneResetsOnError(item, fetched) ==
    IF ~needsImage(item) /\ ~needsDate(item) THEN item
    ELSE IF fetched.ok THEN enrichFrom(item, fetched.html)
    ELSE [item EXCEPT !.published = <<>>, !.publishedTs = 0]

\* the item enrichOne returns (the object it was given, changed in place)
enrichOne(item, fetched) ==
    IF ~needsImage(item) /\ ~needsDate(item) THEN item
    ELSE IF fetched.ok THEN enrichFrom(item, fetched.html)
    ELSE item

\* a relative og:image and a publication date
PageFull ==
    <<Meta("property", "og:image", <<"/rel.jpg">>),
      Meta("name", "twitter:image", <<"h:", "/tw.jpg">>),
      Meta("property", "article:published_time", <<"2024-01-01T00:00:00Z">>)>>
\* an og:image the expression does not match, then an emoji image; a
\* publication time that does not parse before an update time that does
PageOdd ==
    <<[Meta("property", "og:image", <<"h:", "/first.jpg">>) EXCEPT !.contentFirst = TRUE],
      Meta("property", "og:image:url", <<"h:", "/emoji", "/1f600.png">>),
      Meta("name", "twitter:image", <<"h:", "/tw.jpg">>),
      Meta("property", "article:published_time", <<"yesterday">>),
      Meta("property", "og:updated_time", <<"2025-01-01T00:00:00Z">>)>>
\* an escaped absolute og:image and a publication date at the epoch
PageEpoch ==
    <<Meta("property", "og:image", <<"H:", "/i", "&amp;", "/w">>),
      Meta("property", "article:published_time", <<"1970-01-01T00:00:00Z">>)>>
\* no image; modified before 1970
PageOld ==
    <<Meta("itemprop", "og:image", <<"h:", "/ip.jpg">>),
      Meta("property", "article:modified_time", <<"1969-12-31T23:59:58Z">>)>>

Pages == {PageFull, PageOdd, PageEpoch, PageOld}

(***************************************************************************)
(* The state of one run of main                                            *)
(***************************************************************************)
VARIABLES
    pc,         \* where main stands
    feeds,      \* the parsed feeds.json
    feedIdx,    \* the feed the loop over feeds handles next
    items,      \* the NewsItem objects, in the order they were pushed
    errors,     \* the IngestErrors
    byLink,     \* the values of the Map byLink, in insertion order
    toEnrich,   \* merged.slice(0, ENRICH_LIMIT)
    rest,       \* merged.slice(ENRICH_LIMIT)
    poolI,      \* asyncPool: how many elements of arr the loop has taken
    task,       \* asyncPool: per element of arr, the promise p, the call of
                \* enrichOne behind it, the timer of its fetchText and the
                \* promise e; seq is history: how many calls had ended when
                \* this one ended
    executing,  \* asyncPool: the array executing
    raceSet,    \* asyncPool: the promises handed to Promise.race
    merged,     \* the ranked list
    payload,    \* the payload written to the output file
    ingested,   \* history: items as they were when ingestion ended
    feedLog,    \* history: per feed handled, whether its try block ended
                \* normally ("ok") or in its catch ("failed")
    parsedLog   \* history: per feed handled, the raw items its parsed
                \* document held (none when the feed was not parsed)

vars ==
    <<pc, feeds, feedIdx, items, errors, byLink, toEnrich, rest, poolI, task,
      executing, raceSet, merged, payload, ingested, feedLog, parsedLog>>

pipelineVars == <<feeds, feedIdx, items, errors, byLink, toEnrich, rest, merged,
                  payload, ingested, feedLog, parsedLog>>
poolVars == <<poolI, task, executing, raceSet>>

NoTask ==
    [st |-> "none", timer |-> "unset", e |-> "none", outcome |-> "none",
     html |-> <<>>, result |-> 0, seq |-> 0]
NoPayload == [written |-> FALSE, total |-> 0, sources |-> <<>>, errors |-> <<>>,
              items |-> <<>>]

Init ==
    /\ pc = "start"
    /\ feeds = <<>>
    /\ feedIdx = 1
    /\ items = <<>>
    /\ errors = <<>>
    /\ byLink = <<>>
    /\ toEnrich = <<>>
    /\ rest = <<>>
    /\ poolI = 0
    /\ task = <<>>
    /\ executing = <<>>
    /\ raceSet = {}
    /\ merged = <<>>
    /\ payload = NoPayload
    /\ ingested = <<>>
    /\ feedLog = <<>>
    /\ parsedLog = <<>>

(***************************************************************************)
(* main: reading the configuration and ingesting the feeds                 *)
(***************************************************************************)
\* JSON.parse(await fs.readFile(FEEDS_PATH))
ReadFeeds ==
    /\ pc = "start"
    /\ \E list \in FeedLists : feeds' = list
    /\ pc' = "ingest"
    /\ UNCHANGED <<feedIdx, items, errors, byLink, toEnrich, rest, merged, payload,
                   ingested, feedLog, parsedLog, poolVars>>

\* the file is missing or is not JSON: main rejects, the process exits 1
ReadFeedsFails ==
    /\ pc = "start"
    /\ pc' = "exit1"
    /\ UNCHANGED <<pipelineVars, poolVars>>

\* one turn of the loop over feeds whose feed was fetched and parsed: the
\* raw items are built and pushed until one of them raises an exception
FeedParsed ==
    /\ pc = "ingest"
    /\ feedIdx <= Len(feeds)
    /\ \E raw \in FeedDocs :
          LET feed == feeds[feedIdx]
              r == processItems(feed, raw, <<>>)
          IN  /\ items' = items \o r.pushed
              /\ errors' = IF r.threw
                           THEN Append(errors, IngestError(feed, "trim is not a function"))
                           ELSE errors
              /\ feedLog' = Append(feedLog, IF r.threw THEN "failed" ELSE "ok")
              /\ parsedLog' = Append(parsedLog, raw)
    /\ feedIdx' = feedIdx + 1
    /\ UNCHANGED <<pc, feeds, byLink, toEnrich, rest, merged, payload, ingested,
                   poolVars>>

\* a failed feed fetch that ends the run instead of being recorded
FeedFetchFailsExits ==
    /\ pc = "ingest"
    /\ feedIdx <= Len(feeds)
    /\ pc' = "exit1"
    /\ UNCHANGED <<pipelineVars, poolVars>>

\* fetchXml throws: the status is not a success, or the request fails
FeedFetchFails ==
    /\ pc = "ingest"
    /\ feedIdx <= Len(feeds)
    /\ errors' = Append(errors, IngestError(feeds[feedIdx], "Fetch failed 500"))
    /\ feedLog' = Append(feedLog, "failed")
    /\ parsedLog' = Append(parsedLog, <<>>)
    /\ feedIdx' = feedIdx + 1
    /\ UNCHANGED <<pc, feeds, items, byLink, toEnrich, rest, merged, payload, ingested,
                   poolVars>>

\* parser.parseString rejects the document
FeedParseFails ==
    /\ pc = "ingest"
    /\ feedIdx <= Len(feeds)
    /\ errors' = Append(errors, IngestError(feeds[feedIdx], "Invalid XML"))
    /\ feedLog' = Append(feedLog, "failed")
    /\ parsedLog' = Append(parsedLog, <<>>)
    /\ feedIdx' = feedIdx + 1
    /\ UNCHANGED <<pc, feeds, items, byLink, toEnrich, rest, merged, payload, ingested,
                   poolVars>>

(***************************************************************************)
(* main: deduplication and the first ranking                               *)
(***************************************************************************)
Dedupe ==
    /\ pc = "ingest"
    /\ feedIdx > Len(feeds)
    /\ byLink' = dedupe(items)
    /\ ingested' = items
    /\ pc' = "rank"
    /\ UNCHANGED <<feeds, feedIdx, items, errors, toEnrich, rest, merged, payload,
                   feedLog, parsedLog, poolVars>>

\* the first sort, the split at ENRICH_LIMIT and the call of asyncPool up
\* to its loop
Rank ==
    /\ pc = "rank"
    /\ LET sorted == sortByTs(items, byLink)
           head == slice(sorted, 0, ENRICH_LIMIT)
       IN  /\ merged' = sorted
           /\ toEnrich' = head
           /\ rest' = slice(sorted, ENRICH_LIMIT, Len(sorted))
           /\ task' = [i \in 1..Len(head) |-> NoTask]
    /\ poolI' = 0
    /\ executing' = <<>>
    /\ raceSet' = {}
    /\ pc' = "pool_loop"
    /\ UNCHANGED <<feeds, feedIdx, items, errors, byLink, payload, ingested, feedLog,
                   parsedLog>>

(***************************************************************************)
(* asyncPool(ENRICH_CONCURRENCY, toEnrich, enrichOne)                      *)
(*                                                                         *)
(* JavaScript runs one job at a time.  While the loop of asyncPool runs    *)
(* (pc = "pool_loop") nothing else does; once it awaits, the promise jobs  *)
(* (the start of a scheduled call, the callback behind e, the resumption   *)
(* of the loop or of Promise.all) run before any network or timer event.   *)
(***************************************************************************)
\* limit <= arr.length: whether the promises e are kept at all
poolTracks(limit, n) == limit <= n

\* the comparison of poolMustWait off by one: the loop awaits only when
\* executing holds more promises than the limit
poolMustWaitLate(len, limit) == len > limit

\* executing.length >= limit: whether the loop awaits Promise.race
poolMustWait(len, limit) == len >= limit

\* Array.prototype.indexOf, 0-based, -1 when absent
indexOf(s, x) ==
    IF \E k \in 1..Len(s) : s[k] = x
    THEN (CHOOSE k \in 1..Len(s) : s[k] = x /\ \A j \in 1..(k - 1) : s[j] # x) - 1
    ELSE -1

\* executing.splice(start, 1): a negative start counts from the end
splice1(s, start) ==
    LET at == IF start < 0 THEN (IF Len(s) + start < 0 THEN 0 ELSE Len(s) + start)
              ELSE start
    IN  IF at >= Len(s) THEN s
        ELSE SubSeq(s, 1, at) \o SubSeq(s, at + 2, Len(s))

inFlight == {i \in 1..Len(task) : task[i].st \in {"fetch", "body"}}

\* the calls of fn that have ended
ended == {i \in 1..Len(task) : task[i].st = "done"}

eResolved(i) == task[i].e = "resolved"

\* a promise job is waiting to run
jobPending ==
    \/ \E i \in 1..Len(task) : task[i].st = "scheduled"
    \/ \E i \in 1..Len(task) : task[i].st = "done" /\ task[i].e = "pending"
    \/ pc = "pool_race" /\ \E i \in raceSet : eResolved(i)
    \/ pc = "pool_all" /\ \A i \in 1..Len(task) : task[i].st = "done"

\* the loop is suspended and no promise job is left: the event loop takes
\* the next network or timer event
idle == pc \in {"pool_race", "pool_all"} /\ ~jobPending

\* one turn of the loop: p is created (the call of fn is scheduled), and
\* with it e when the pool keeps track; the loop awaits the race when
\* executing is full
PoolNext ==
    /\ pc = "pool_loop"
    /\ poolI < Len(toEnrich)
    /\ LET i == poolI + 1
           tracks == poolTracks(ENRICH_CONCURRENCY, Len(toEnrich))
           exec == IF tracks THEN Append(executing, i) ELSE executing
           waits == tracks /\ poolMustWait(Len(exec), ENRICH_CONCURRENCY)
       IN  /\ poolI' = i
           /\ task' = [task EXCEPT ![i].st = "scheduled",
                                   ![i].e = IF tracks THEN "pending" ELSE "none"]
           /\ executing' = exec
           /\ raceSet' = IF waits THEN {exec[k] : k \in 1..Len(exec)} ELSE raceSet
           /\ pc' = IF waits THEN "pool_race" ELSE "pool_loop"
    /\ UNCHANGED pipelineVars

\* the loop is over: asyncPool returns Promise.all(ret)
PoolLoopEnds ==
    /\ pc = "pool_loop"
    /\ poolI = Len(toEnrich)
    /\ pc' = "pool_all"
    /\ UNCHANGED <<pipelineVars, poolVars>>

\* the job of Promise.resolve().then(() => fn(item)): enrichOne runs up to
\* its first await, the fetch of fetchText, or returns at once
TaskStart(i) ==
    /\ pc \in {"pool_race", "pool_all"}
    /\ task[i].st = "scheduled"
    /\ \A j \in 1..(i - 1) : task[j].st # "scheduled"
    /\ LET item == items[toEnrich[i]]
       IN  IF ~needsImage(item) /\ ~needsDate(item)
           THEN task' = [task EXCEPT ![i].st = "done", ![i].outcome = "skipped",
                                     ![i].result = toEnrich[i],
                                     ![i].seq = Cardinality(ended)]
           ELSE task' = [task EXCEPT ![i].st = "fetch", ![i].timer = "armed"]
    /\ UNCHANGED <<pc, pipelineVars, poolI, executing, raceSet>>

\* the call of enrichOne behind p ends and p is fulfilled with the item;
\* fetchText's finally cleared the timer unless it is the timer that fired
Settle(i, fetched, timer) ==
    /\ items' = [items EXCEPT ![toEnrich[i]] = enrichOne(@, fetched)]
    /\ task' = [task EXCEPT ![i].st = "done",
                            ![i].outcome = IF fetched.ok THEN "ok" ELSE "failed",
                            ![i].timer = timer,
                            ![i].html = fetched.html,
                            ![i].result = toEnrich[i],
                            ![i].seq = Cardinality(ended)]
    /\ UNCHANGED <<pc, feeds, feedIdx, errors, byLink, toEnrich, rest, merged, payload,
                   ingested, feedLog, parsedLog, poolI, executing, raceSet>>

\* the response arrives with a success status: fetchText awaits res.text()
FetchResponds(i) ==
    /\ idle
    /\ task[i].st = "fetch"
    /\ task' = [task EXCEPT ![i].st = "body"]
    /\ UNCHANGED <<pc, pipelineVars, poolI, executing, raceSet>>

\* the response arrives with another status: fetchText throws
FetchNotOk(i) ==
    /\ idle
    /\ task[i].st = "fetch"
    /\ Settle(i, FetchError, "cleared")

\* the request fails (DNS, connection, TLS): fetch rejects
FetchRejects(i) ==
    /\ idle
    /\ task[i].st = "fetch"
    /\ Settle(i, FetchError, "cleared")

\* a timer whose callback does not abort the request: the call of
\* fetchText goes on waiting
TimerFiresWithoutAbort(i) ==
    /\ idle
    /\ task[i].timer = "armed"
    /\ task' = [task EXCEPT ![i].timer = "fired"]
    /\ UNCHANGED <<pc, pipelineVars, poolI, executing, raceSet>>

\* the timer of fetchText fires after FETCH_TIMEOUT: the controller aborts
\* the request or the reading of the body
TimerFires(i) ==
    /\ idle
    /\ task[i].timer = "armed"
    /\ Settle(i, FetchError, "fired")

\* reading the body fails
BodyFails(i) ==
    /\ idle
    /\ task[i].st = "body"
    /\ Settle(i, FetchError, "cleared")

\* the body arrives: the rest of enrichOne's try block runs and the item
\* is changed in place
BodyArrives(i) ==
    /\ idle
    /\ task[i].st = "body"
    /\ \E html \in Pages : Settle(i, Fetched(html), "cleared")

\* the callback behind e: executing.splice(executing.indexOf(e), 1)
ERemoves(i) ==
    /\ pc \in {"pool_race", "pool_all"}
    /\ task[i].st = "done"
    /\ task[i].e = "pending"
    /\ executing' = splice1(executing, indexOf(executing, i))
    /\ task' = [task EXCEPT ![i].e = "resolved"]
    /\ UNCHANGED <<pc, pipelineVars, poolI, raceSet>>

\* Promise.race settles with the first e that settled: the loop goes on
RaceWakes ==
    /\ pc = "pool_race"
    /\ \E i \in raceSet : eResolved(i)
    /\ pc' = "pool_loop"
    /\ raceSet' = {}
    /\ UNCHANGED <<pipelineVars, poolI, task, executing>>

\* a Promise.all that is fulfilled without waiting for every p
PoolResolvesEarly ==
    /\ pc = "pool_all"
    /\ pc' = "rerank"
    /\ UNCHANGED <<pipelineVars, poolVars>>

\* Promise.all(ret) is fulfilled once every p is: main has enriched.  The
\* callback behind e was attached to p before Promise.all was, so it has
\* run by then
PoolResolves ==
    /\ pc = "pool_all"
    /\ \A i \in 1..Len(task) : task[i].st = "done" /\ task[i].e # "pending"
    /\ pc' = "rerank"
    /\ UNCHANGED <<pipelineVars, poolVars>>

(***************************************************************************)
(* main: the second ranking, the cut and the payload                       *)
(***************************************************************************)
\* what Promise.all resolved with: the value of each p, in the order of ret
enriched == [i \in 1..Len(task) |-> task[i].result]

\* merged = enriched.concat(rest).sort(...)
Rerank ==
    /\ pc = "rerank"
    /\ merged' = sortByTs(items, enriched \o rest)
    /\ pc' = "truncate"
    /\ UNCHANGED <<feeds, feedIdx, items, errors, byLink, toEnrich, rest, payload,
                   ingested, feedLog, parsedLog, poolVars>>

\* merged = merged.slice(0, MAX_ITEMS)
Truncate ==
    /\ pc = "truncate"
    /\ merged' = slice(merged, 0, MAX_ITEMS)
    /\ pc' = "write"
    /\ UNCHANGED <<feeds, feedIdx, items, errors, byLink, toEnrich, rest, payload,
                   ingested, feedLog, parsedLog, poolVars>>

\* the payload is assembled, serialised and written
WritePayload ==
    /\ pc = "write"
    /\ payload' = [written |-> TRUE,
                   total |-> Len(merged),
                   sources |-> feeds,
                   errors |-> errors,
                   items |-> [k \in 1..Len(merged) |-> items[merged[k]]]]
    /\ pc' = "done"
    /\ UNCHANGED <<feeds, feedIdx, items, errors, byLink, toEnrich, rest, merged,
                   ingested, feedLog, parsedLog, poolVars>>

\* fs.mkdir or fs.writeFile rejects: main rejects, the process exits 1
WriteFails ==
    /\ pc = "write"
    /\ pc' = "exit1"
    /\ UNCHANGED <<pipelineVars, poolVars>>

Next ==
    \/ ReadFeeds
    \/ ReadFeedsFails
    \/ FeedParsed
    \/ FeedFetchFails
    \/ FeedParseFails
    \/ Dedupe
    \/ Rank
    \/ PoolNext
    \/ PoolLoopEnds
    \/ \E i \in 1..Len(task) : TaskStart(i)
    \/ \E i \in 1..Len(task) : FetchResponds(i)
    \/ \E i \in 1..Len(task) : FetchNotOk(i)
    \/ \E i \in 1..Len(task) : FetchRejects(i)
    \/ \E i \in 1..Len(task) : TimerFires(i)
    \/ \E i \in 1..Len(task) : BodyFails(i)
    \/ \E i \in 1..Len(task) : BodyArrives(i)
    \/ \E i \in 1..Len(task) : ERemoves(i)
    \/ RaceWakes
    \/ PoolResolves
    \/ Rerank
    \/ Truncate
    \/ WritePayload
    \/ WriteFails

Spec == Init /\ [][Next]_vars

\* The runs in which the event loop does its work: a step of main or a
\* promise job that can run does run, a file operation ends, and a timer
\* of fetchText that is armed fires unless its fetch settles first.
\* Nothing is assumed about the article pages, nor about the feed requests
\* (fetchXml sets no timer): either may never respond.
Fairness ==
    /\ WF_vars(ReadFeeds \/ ReadFeedsFails)
    /\ WF_vars(Dedupe)
    /\ WF_vars(Rank)
    /\ WF_vars(PoolNext)
    /\ WF_vars(PoolLoopEnds)
    /\ WF_vars(RaceWakes)
    /\ WF_vars(PoolResolves)
    /\ WF_vars(Rerank)
    /\ WF_vars(Truncate)
    /\ WF_vars(WritePayload \/ WriteFails)
    /\ \A i \in 1..ENRICH_LIMIT :
          /\ WF_vars(i \in 1..Len(task) /\ TaskStart(i))
          /\ WF_vars(i \in 1..Len(task) /\ ERemoves(i))
          /\ WF_vars(i \in 1..Len(task) /\ TimerFires(i))

FairSpec == Spec /\ Fairness

(***************************************************************************)
(* Properties                                                              *)
(***************************************************************************)
\* the object the i-th call of enrichOne was given
headRef(i) == toEnrich[i]

\* the sources an IngestError was recorded for
errorSources == {errors[k].sourceId : k \in 1..Len(errors)}

\* the feeds whose processing failed
failedFeeds == {f \in 1..Len(feedLog) : feedLog[f] = "failed"}

\* C1: while asyncPool runs, the calls of enrichOne that have started and
\* have not completed (the page fetches in flight) never number more than
\* ENRICH_CONCURRENCY, whatever the length of the head and the order in
\* which the fetches complete.
C1_PoolBound == Cardinality(inFlight) <= ENRICH_CONCURRENCY

\* the head is longer than the limit, the pool is full and an element of
\* the head is still waiting for a slot
C1_Witness ==
    /\ Len(toEnrich) > ENRICH_CONCURRENCY
    /\ poolI < Len(toEnrich)
    /\ Cardinality(inFlight) = ENRICH_CONCURRENCY

\* C2: whatever feeds fail, every feed is processed, errors holds exactly
\* one IngestError per failed feed and none for a feed that succeeded, and
\* the items of the feeds that did not fail that enter the ranking are the
\* ones that would enter it had the failed feeds been absent.
C2_FailureIsolation ==
    pc \notin {"start", "ingest"} =>
        /\ Len(feedLog) = Len(feeds)
        /\ Len(errors) = Cardinality(failedFeeds)
        /\ \A f \in 1..Len(feeds) :
              (f \in failedFeeds) <=> (feeds[f].id \in errorSources)
        /\ LET fromOk(it) == \A f \in failedFeeds : feeds[f].id # it.sourceId
               okItems == SelectSeq(ingested, fromOk)
               alone == dedupe(okItems)
           IN  {ingested[byLink[k]].id : k \in {j \in 1..Len(byLink) :
                                                  fromOk(ingested[byLink[j]])}}
               = {okItems[alone[k]].id : k \in 1..Len(alone)}

\* C3: a feed source for which an IngestError is recorded contributes no
\* item to the payload, wherever its processing failed.
C3_FailedFeedNoItems ==
    payload.written =>
        \A k \in 1..Len(payload.errors), m \in 1..Len(payload.items) :
            payload.items[m].sourceId # payload.errors[k].sourceId

\* C4: when the page fetch of a head item fails (time-out or abort, status
\* that is not a success, network error, body that cannot be read), the
\* item keeps every field it had before enrichment, errors gains no entry,
\* the run does not end before the payload is written, and the payload
\* holds the item as it was.
C4_FailedFetchKeepsItem ==
    \A i \in 1..Len(task) :
        task[i].outcome = "failed" =>
            /\ items[headRef(i)] = ingested[headRef(i)]
            /\ Len(errors) = Cardinality(failedFeeds)
            /\ pc = "exit1" => \A j \in 1..Len(task) : task[j].st = "done"
            /\ payload.written =>
                  /\ payload.errors = errors
                  /\ \A k \in 1..Len(merged) :
                        merged[k] = headRef(i) => payload.items[k] = ingested[headRef(i)]

\* the payload is written after one fetch timed out while another item
\* was enriched
C4_Witness ==
    /\ payload.written
    /\ \E i, j \in 1..Len(task) :
          /\ task[i].outcome = "failed"
          /\ task[i].timer = "fired"
          /\ \E k \in 1..Len(merged) : merged[k] = headRef(i)
          /\ task[j].outcome = "ok"
          /\ items[headRef(j)] # ingested[headRef(j)]

sameIdentity(a, b) ==
    /\ a.id = b.id
    /\ a.title = b.title
    /\ a.link = b.link
    /\ a.sourceId = b.sourceId
    /\ a.sourceName = b.sourceName
    /\ a.categories = b.categories
    /\ a.excerpt = b.excerpt

\* C5: whatever the outcome of its page fetch, every item keeps the id,
\* title, link, sourceId, sourceName, categories and excerpt it got at
\* ingestion, in the array of items and in the payload.
C5_EnrichmentFrame ==
    pc \notin {"start", "ingest"} =>
        /\ Len(items) = Len(ingested)
        /\ \A r \in 1..Len(items) : sameIdentity(items[r], ingested[r])
        /\ payload.written =>
              \A k \in 1..Len(payload.items) :
                  sameIdentity(payload.items[k], ingested[merged[k]])

\* an item of the payload got both its image and its date from its page
C5_Witness ==
    /\ payload.written
    /\ \E k \in 1..Len(payload.items) :
          /\ payload.items[k].image # ingested[merged[k]].image
          /\ payload.items[k].publishedTs # ingested[merged[k]].publishedTs
          /\ payload.items[k].published # ingested[merged[k]].published

\* the head item has no image and no date, its page was fetched, and the
\* page has an og:image that is not junk and a publication time that parses
C6_Case(i) ==
    /\ task[i].outcome = "ok"
    /\ ingested[headRef(i)].image = <<>>
    /\ ingested[headRef(i)].publishedTs = 0
    /\ extractMeta(task[i].html, "og:image") # <<>>
    /\ ~isJunkImage(extractMeta(task[i].html, "og:image"))
    /\ DateParse(extractMeta(task[i].html, "article:published_time")).finite

\* C6: in the case C6_Case the item has the og:image made absolute against
\* its link as image, the publication time as published and its timestamp
\* as publishedTs, and it stands in the payload where that timestamp puts
\* it.
C6_EnrichedFromPage ==
    \A i \in 1..Len(task) :
        C6_Case(i) =>
            LET it == items[headRef(i)]
                X == extractMeta(task[i].html, "og:image")
                D == extractMeta(task[i].html, "article:published_time")
            IN  /\ it.image = absolutizeMaybe(X, it.link)
                /\ it.published = D
                /\ it.publishedTs = DateParse(D).val
                /\ payload.written =>
                      \A k, m \in 1..Len(payload.items) :
                          (merged[k] = headRef(i) /\ payload.items[k] = it) =>
                              /\ m < k => payload.items[m].publishedTs >= it.publishedTs
                              /\ m > k => payload.items[m].publishedTs <= it.publishedTs

\* C7: no two items of the payload have the same link.
C7_UniqueLinks ==
    payload.written =>
        \A k, m \in 1..Len(payload.items) :
            k # m => payload.items[k].link # payload.items[m].link

\* the payload holds several items, the feeds delivered a link twice, and
\* enrichment changed an item
C7_Witness ==
    /\ payload.written
    /\ Len(payload.items) >= 2
    /\ \E a, b \in 1..Len(ingested) : a # b /\ ingested[a].link = ingested[b].link
    /\ \E r \in 1..Len(items) : items[r] # ingested[r]

\* C8: of the items with the same canonical link (the three escaped
\* spellings of an ampersand give one canonical link) the one met first in
\* feed-processing order survives, alone, and it has its own id, title,
\* source, categories and excerpt in the payload.
C8_FirstWins ==
    /\ normalizeUrl(R2.link) = normalizeUrl(R3.link)
    /\ normalizeUrl(R3.link) = normalizeUrl(R7.link)
    /\ pc \notin {"start", "ingest"} =>
          /\ \A j \in 1..Len(ingested) :
                \E k \in 1..Len(byLink) :
                    /\ byLink[k] <= j
                    /\ ingested[byLink[k]].link = ingested[j].link
          /\ \A k, m \in 1..Len(byLink) :
                k # m => ingested[byLink[k]].link # ingested[byLink[m]].link
          /\ payload.written =>
                \A k \in 1..Len(payload.items) :
                    /\ merged[k] \in {byLink[j] : j \in 1..Len(byLink)}
                    /\ sameIdentity(payload.items[k], ingested[merged[k]])

\* two feeds delivered the same link in different spellings, and the
\* payload holds the item of the first
C8_Witness ==
    /\ payload.written
    /\ \E a, b \in 1..Len(ingested) :
          /\ a < b
          /\ ingested[a].link = ingested[b].link
          /\ ingested[a].title = "t3"
          /\ ingested[b].title = "t2"
          /\ ingested[a].sourceId # ingested[b].sourceId
          /\ \E k \in 1..Len(payload.items) :
                /\ payload.items[k].link = ingested[a].link
                /\ payload.items[k].title = "t3"
                /\ payload.items[k].sourceId = ingested[a].sourceId

\* C9: the items of the payload are sorted by publishedTs, descending, and
\* every item whose publishedTs is 0 comes after every item whose
\* publishedTs is not 0.
C9_SortedZeroLast ==
    payload.written =>
        /\ \A k \in 1..(Len(payload.items) - 1) :
              payload.items[k].publishedTs >= payload.items[k + 1].publishedTs
        /\ \A k, m \in 1..Len(payload.items) :
              (k < m /\ payload.items[k].publishedTs = 0) =>
                  payload.items[m].publishedTs = 0

\* the ranking of the first pass, and the place of an item in a list
firstRank == toEnrich \o rest
place(list, x) == CHOOSE k \in 1..Len(list) : list[k] = x

\* C10 as stated: two items of the payload with equal publishedTs stand in
\* their first-occurrence order of the merge step.
C10_TiesInMergeOrder ==
    payload.written =>
        \A k, m \in 1..Len(payload.items) :
            (k < m /\ payload.items[k].publishedTs = payload.items[m].publishedTs) =>
                merged[k] < merged[m]

\* C10 as amended: two items of the payload with equal publishedTs stand
\* in the order the first ranking pass gave them; that is their
\* first-occurrence order of the merge step when their publishedTs were
\* equal at the first pass too.
C10_TiesInFirstRankOrder ==
    payload.written =>
        \A k, m \in 1..Len(payload.items) :
            (k < m /\ payload.items[k].publishedTs = payload.items[m].publishedTs) =>
                /\ place(firstRank, merged[k]) < place(firstRank, merged[m])
                /\ ingested[merged[k]].publishedTs = ingested[merged[m]].publishedTs
                      => merged[k] < merged[m]

\* two items of the payload tie, one of them dated by enrichment
C10_Witness ==
    /\ payload.written
    /\ \E k, m \in 1..Len(payload.items) :
          /\ k # m
          /\ payload.items[k].publishedTs = payload.items[m].publishedTs
          /\ ingested[merged[k]].publishedTs = 0
          /\ payload.items[k].publishedTs # 0
          /\ ingested[merged[m]].publishedTs # 0

\* every NewsItem object that exists, and every item of the payload
allItems ==
    {items[r] : r \in 1..Len(items)} \cup {payload.items[k] : k \in 1..Len(payload.items)}

\* C11: after ingestion and after enrichment, the publishedTs of every item
\* is not negative, and it is 0 exactly when the item's date string (from
\* the feed or from the article page) does not parse: a date that parses
\* gives a publishedTs that is not 0.
C11_TsZeroIffNoDate ==
    \A it \in allItems :
        /\ it.publishedTs >= 0
        /\ it.publishedTs = 0 <=> ~DateParse(it.published).finite

\* the items of the ranking that the cut left out of the payload
cutRefs == {byLink[j] : j \in 1..Len(byLink)} \ {merged[k] : k \in 1..Len(merged)}

\* C12: the payload written holds at most MAX_ITEMS items, its total is the
\* number of its items, and the cut comes after the second ranking: every
\* item left out has a final publishedTs not greater than that of any item
\* kept.
C12_CutAfterRerank ==
    payload.written =>
        /\ Len(payload.items) <= MAX_ITEMS
        /\ payload.total = Len(payload.items)
        /\ Len(payload.items) = (IF Len(byLink) < MAX_ITEMS THEN Len(byLink) ELSE MAX_ITEMS)
        /\ \A r \in cutRefs, k \in 1..Len(payload.items) :
              items[r].publishedTs <= payload.items[k].publishedTs

\* an item was left out although the first ranking had it in the head: the
\* enrichment of other items moved it behind them
C12_Witness ==
    /\ payload.written
    /\ Len(byLink) > MAX_ITEMS
    /\ \E r \in cutRefs :
          /\ place(firstRank, r) <= MAX_ITEMS
          /\ \E k \in 1..Len(payload.items) :
                items[r].publishedTs < payload.items[k].publishedTs

\* the raw item bears a category equal to "discos" when case and the white
\* space around it are set aside, among all the categories it has
bearsDiscos(it) ==
    LET raw == IF truthy(it.categories) THEN it.categories
               ELSE IF truthy(it.category) THEN it.category
               ELSE Arr(<<>>)
        arr == IF raw.t = "arr" THEN raw.v ELSE <<raw.v>>
    IN  \E i \in 1..Len(arr) : toLowerCase(trimStr(arr[i])) = "discos"

\* the raw item has a link main can use
resolvable(it) == ~itemThrows(it) /\ normalizeUrl(linkOrGuid(it)) # <<>>

\* main pushed a NewsItem for the raw item it of the feed
keptFrom(feed, it) ==
    \E r \in 1..Len(ingested) :
        /\ ingested[r].id = sha1(feed.id, normalizeUrl(linkOrGuid(it)))
        /\ ingested[r].title = trimStr(it.title)

\* C13: of the raw items with a resolvable link of a parsed feed, the
\* source "mondosonoro" keeps exactly those that bear a category equal to
\* "discos" case-insensitively, however many categories they have; an item
\* the filter leaves out adds no IngestError; every other source keeps all
\* of them.
C13_DiscosFilter ==
    pc \notin {"start", "ingest"} =>
        \A f \in 1..Len(feeds) :
            feedLog[f] = "ok" =>
                /\ feeds[f].id \notin errorSources
                /\ \A n \in 1..Len(parsedLog[f]) :
                      LET it == parsedLog[f][n]
                      IN  resolvable(it) =>
                            (keptFrom(feeds[f], it) <=>
                                (feeds[f].id = "mondosonoro" => bearsDiscos(it)))

\* C14: the run takes the exit(1) path only when reading feeds.json fails
\* or when writing the output fails, and then no payload is written;
\* whatever feeds and page fetches fail, the run that ends otherwise ends
\* with the payload written, the errors of the failed feeds in it, and no
\* step of the run is stuck before one of these two ends.
C14_ExitOnlyOnConfigOrWrite ==
    /\ [][/\ pc' = "exit1" => (pc \in {"start", "write"} /\ ~payload'.written)
          /\ pc' = "done" =>
                /\ payload'.written
                /\ payload'.errors = errors'
                /\ Len(errors') = Cardinality({f \in 1..Len(feedLog') :
                                                  feedLog'[f] = "failed"})]_vars
    /\ [](pc \notin {"done", "exit1"} => ENABLED Next)

\* the payload is written although a feed failed in the middle of its
\* items and a page fetch failed
C14_Witness ==
    /\ pc = "done"
    /\ payload.written
    /\ Len(payload.errors) >= 1
    /\ \E f \in 1..Len(feedLog) : feedLog[f] = "failed" /\ parsedLog[f] # <<>>
    /\ \E i \in 1..Len(task) : task[i].outcome = "failed"

\* the item lacks an image or a date
lacksSomething(it) == it.image = <<>> \/ isJunkImage(it.image) \/ it.publishedTs = 0

\* a page fetch was issued for the i-th element of the head
fetchIssued(t) == t.st \in {"fetch", "body"} \/ t.outcome \in {"ok", "failed"}

\* C15: a page fetch is issued for an item exactly when the item is among
\* the first ENRICH_LIMIT items of the first ranking and lacks an image or
\* a date; it is issued at most once per item, also after a failure; an
\* item behind position ENRICH_LIMIT is never fetched and reaches the second
\* ranking with every field unchanged.
C15_FetchOnlyForNeedyHead ==
    [][/\ Len(task') <= ENRICH_LIMIT
       /\ \A i \in 1..Len(task') :
             /\ task'[i].st = "fetch" =>
                   lacksSomething(ingested'[toEnrich'[i]])
             \* a fetch starts only in a task that never ran, and a task never
             \* runs again
             /\ i \in 1..Len(task) =>
                   /\ (task'[i].st = "fetch" /\ task[i].st # "fetch") =>
                         (task[i].st = "scheduled" /\ ~fetchIssued(task[i]))
                   /\ (task'[i].st = "scheduled" /\ task[i].st # "scheduled") =>
                         task[i].st = "none"
                   /\ task[i].st # "none" => task'[i].st # "none"
                   /\ task[i].st = "done" =>
                         (task'[i].st = "done" /\ task'[i].outcome = task[i].outcome)
       \* no two tasks have the same item
       /\ \A i, j \in 1..Len(toEnrich') : i # j => toEnrich'[i] # toEnrich'[j]
       /\ pc' = "rerank" =>
             /\ toEnrich' = slice(toEnrich' \o rest', 0, ENRICH_LIMIT)
             /\ \A i \in 1..Len(task') :
                   fetchIssued(task'[i]) <=> lacksSomething(ingested'[toEnrich'[i]])
             /\ \A k \in 1..Len(rest') : items'[rest'[k]] = ingested'[rest'[k]]
       /\ pc' \in {"truncate", "write", "done"} =>
             \A k \in 1..Len(rest') : items'[rest'[k]] = ingested'[rest'[k]]]_vars

\* the payload is written after a run in which an item behind the head
\* lacked an image, a head item needed nothing and the fetch of another
\* head item failed
C15_Witness ==
    /\ payload.written
    /\ \E k \in 1..Len(rest) : lacksSomething(items[rest[k]])
    /\ \E i \in 1..Len(task) : task[i].outcome = "skipped"
    /\ \E i \in 1..Len(task) : task[i].outcome = "failed"

\* C16: the second ranking, the cut and the payload come only after every
\* call of enrichOne made by asyncPool has ended; asyncPool resolves with
\* one result per element of its input, in the order of the input, whatever
\* the order in which the calls ended; no item is changed once the second
\* ranking has begun; and an item is changed only by the one call that was
\* given it, when that call ends.
C16_JoinBeforeRerank ==
    [][/\ pc' \in {"rerank", "truncate", "write", "done"} =>
             /\ \A i \in 1..Len(task') : task'[i].st = "done"
             /\ Len(task') = Len(toEnrich')
             /\ [i \in 1..Len(task') |-> task'[i].result] = toEnrich'
       /\ pc \in {"rerank", "truncate", "write", "done", "exit1"} => items' = items
       /\ \A r \in 1..Len(items) :
             (r \in 1..Len(items') /\ items'[r] # items[r]) =>
                 /\ Cardinality({i \in 1..Len(task) : toEnrich[i] = r}) = 1
                 /\ \A i \in 1..Len(task) :
                       toEnrich[i] = r =>
                           (task[i].st \in {"fetch", "body"} /\ task'[i].st = "done")]_vars

\* the payload is written after a run in which a later element of the head
\* was enriched before an earlier one
C16_Witness ==
    /\ payload.written
    /\ \E i, j \in 1..Len(task) :
          /\ i < j
          /\ task[j].seq < task[i].seq
          /\ task[i].outcome = "ok"
          /\ task[j].outcome = "ok"
          /\ items[toEnrich[i]] # ingested[toEnrich[i]]
          /\ items[toEnrich[j]] # ingested[toEnrich[j]]

\* where the i-th call of enrichOne stands, "absent" when the head has no
\* i-th element
stOf(i) == IF i \in 1..Len(task) THEN task[i].st ELSE "absent"

\* C17: when every armed timer fires unless its fetch settles first, a
\* fetch whose page never responds ends, its place in executing is given
\* back, every element of the head is started, asyncPool resolves and the
\* run reaches its end (the payload written, or the write failed); a timer
\* is armed exactly while its own fetch is under way, and a timer that
\* fires ends only its own call.
C17_TimeoutFreesPool ==
    /\ \A i \in 1..ENRICH_LIMIT :
          /\ (stOf(i) \in {"none", "scheduled"}) ~> (stOf(i) \in {"fetch", "done"})
          /\ (stOf(i) \in {"fetch", "body"})
                ~> (stOf(i) = "done" /\ \A k \in 1..Len(executing) : executing[k] # i)
    /\ (pc = "pool_loop") ~> (pc = "rerank")
    /\ (pc = "rerank") ~> (payload.written \/ pc = "exit1")
    /\ [](\A i \in 1..Len(task) :
             task[i].timer = "armed" <=> task[i].st \in {"fetch", "body"})
    /\ [][\A i \in 1..Len(task) :
             (i \in 1..Len(task') /\ task[i].timer = "armed" /\ task'[i].timer = "fired") =>
                 /\ task'[i].st = "done"
                 /\ \A j \in 1..Len(task) : j # i => task'[j] = task[j]]_vars

\* the payload is written after the timer of a fetch fired while both
\* places of the pool were taken and a third element of the head was
\* waiting, which ended after it
C17_Witness ==
    /\ payload.written
    /\ Len(task) > ENRICH_CONCURRENCY
    /\ \E i, j \in 1..Len(task) :
          /\ i < j
          /\ j > ENRICH_CONCURRENCY
          /\ task[i].timer = "fired"
          /\ task[i].outcome = "failed"
          /\ task[j].outcome \in {"ok", "failed"}
          /\ task[j].seq > task[i].seq

\* the first date of the page that is not empty, in the order enrichOne
\* looks for them
firstDate(html) ==
    orElse(extractMeta(html, "article:published_time"),
    orElse(extractMeta(html, "og:updated_time"),
           extractMeta(html, "article:modified_time")))

\* C18: in every state the publishedTs of every item is the timestamp of
\* its published; when the page of an item without a date was fetched, the
\* date enrichment sets published to the first date of the page that is
\* not empty and publishedTs to its timestamp if that date parses, and
\* changes neither field otherwise.
C18_DateFieldsTogether ==
    [][/\ \A r \in 1..Len(items') :
             items'[r].publishedTs = toTimestamp(items'[r].published)
       /\ \A k \in 1..Len(payload'.items) :
             payload'.items[k].publishedTs = toTimestamp(payload'.items[k].published)
       /\ \A i \in 1..Len(task) :
             (task[i].st = "body" /\ task'[i].outcome = "ok") =>
                 LET old == items[toEnrich[i]]
                     new == items'[toEnrich[i]]
                     D == firstDate(task'[i].html)
                 IN  IF old.publishedTs = 0 /\ DateParse(D).finite
                     THEN new.published = D /\ new.publishedTs = DateParse(D).val
                     ELSE new.published = old.published
                          /\ new.publishedTs = old.publishedTs]_vars

(***************************************************************************)
(* The pipeline of src/scripts/build-feeds.mjs, as a function of the feed  *)
(* sources and of what their URLs return                                   *)
(***************************************************************************)
\* normalizeUrl of build-feeds.mjs: new URL(u) sets aside the white space
\* around u, and no entity is decoded
normalizeUrlBF(u) ==
    IF urlParses(trim(u)) THEN urlToString(trim(u)) ELSE trim(u)

pickImageBF(item) ==
    IF item.mediaContent.dollarUrl # <<>> THEN normalizeUrlBF(item.mediaContent.dollarUrl)
    ELSE IF item.mediaContent.urlIsString THEN normalizeUrlBF(item.mediaContent.url)
    ELSE IF item.mediaThumbnail.dollarUrl # <<>>
        THEN normalizeUrlBF(item.mediaThumbnail.dollarUrl)
    ELSE IF item.mediaThumbnail.urlIsString THEN normalizeUrlBF(item.mediaThumbnail.url)
    ELSE IF item.enclosure # <<>> THEN normalizeUrlBF(item.enclosure)
    ELSE LET img == firstImageFromHtml(bestHtml(item))
         IN  IF img # <<>> THEN normalizeUrlBF(img) ELSE <<>>

buildItemBF(feed, it) ==
    LET link == normalizeUrlBF(linkOrGuid(it))
        published == publishedOf(it)
    IN  [id |-> sha1(feed.id, link),
         title |-> trimStr(it.title),
         link |-> link,
         published |-> published,
         publishedTs |-> toTimestamp(published),
         sourceId |-> feed.id,
         sourceName |-> feed.name,
         categories |-> pickCategories(it),
         image |-> pickImageBF(it),
         excerpt |-> pickExcerpt(it)]

RECURSIVE processItemsBF(_, _, _)
processItemsBF(feed, raw, acc) ==
    IF raw = <<>> THEN [pushed |-> acc, threw |-> FALSE]
    ELSE IF itemThrows(Head(raw)) THEN [pushed |-> acc, threw |-> TRUE]
    ELSE IF normalizeUrlBF(linkOrGuid(Head(raw))) = <<>>
         THEN processItemsBF(feed, Tail(raw), acc)
    ELSE processItemsBF(feed, Tail(raw), Append(acc, buildItemBF(feed, Head(raw))))

\* what parseFeedFromUrl gave for a feed: a parsed document, or the message
\* of the exception it threw
ParsedDoc(raw) == [parsed |-> TRUE, raw |-> raw, message |-> ""]
NotParsed(message) == [parsed |-> FALSE, raw |-> <<>>, message |-> message]

\* the loop over feeds of build-feeds.mjs from feed f on
RECURSIVE ingestBF(_, _, _, _)
ingestBF(feedList, docs, f, acc) ==
    IF f > Len(feedList) THEN acc
    ELSE LET feed == feedList[f]
             r == processItemsBF(feed, docs[f].raw, <<>>)
             message == IF docs[f].parsed THEN "trim is not a function"
                        ELSE docs[f].message
         IN  ingestBF(feedList, docs, f + 1,
                      [items |-> acc.items \o r.pushed,
                       errors |-> IF ~docs[f].parsed \/ r.threw
                                  THEN Append(acc.errors, IngestError(feed, message))
                                  ELSE acc.errors])

\* the payload main of build-feeds.mjs writes
mainBF(feedList, docs) ==
    LET got == ingestBF(feedList, docs, 1, [items |-> <<>>, errors |-> <<>>])
        ranked == slice(sortByTs(got.items, dedupe(got.items)), 0, MAX_ITEMS)
    IN  [written |-> TRUE,
         total |-> Len(ranked),
         sources |-> feedList,
         errors |-> got.errors,
         items |-> [k \in 1..Len(ranked) |-> got.items[ranked[k]]]]

\* what parseFeedFromUrl gave in this run for feed f
docOf(f) ==
    IF feedLog[f] = "failed" /\ ~processItems(feeds[f], parsedLog[f], <<>>).threw
    THEN NotParsed(errors[Cardinality({g \in 1..f : feedLog[g] = "failed"})].error)
    ELSE ParsedDoc(parsedLog[f])

\* no token of the URL is an escaped ampersand
plainUrl(u) == \A i \in 1..Len(u) : decodeToken(u[i]) = u[i]

\* no URL of the raw item holds an escaped ampersand
plainItem(it) ==
    /\ plainUrl(it.link) /\ plainUrl(it.guid) /\ plainUrl(it.enclosure)
    /\ plainUrl(it.mediaContent.dollarUrl) /\ plainUrl(it.mediaContent.url)
    /\ plainUrl(it.mediaThumbnail.dollarUrl) /\ plainUrl(it.mediaThumbnail.url)
    /\ plainUrl(bestHtml(it).img)

\* C19: when no URL of the parsed feeds holds an escaped ampersand and
\* every page fetch of the run failed, the payload of this pipeline has
\* the errors and the items, in the same order, of the payload
\* build-feeds.mjs writes for the same feed sources and the same parsed
\* feeds.
C19_VariantsAgree ==
    (/\ payload.written
     /\ \A f \in 1..Len(parsedLog) :
           \A n \in 1..Len(parsedLog[f]) : plainItem(parsedLog[f][n])
     /\ \A i \in 1..Len(task) : task[i].outcome \in {"skipped", "failed"})
    => LET other == mainBF(feeds, [f \in 1..Len(feeds) |-> docOf(f)])
       IN  /\ payload.errors = other.errors
           /\ payload.items = other.items

\* the URL holds the text "s.w.org/images/core/emoji", in any case
junkUrl(url) == \E i \in 1..Len(url) : url[i] \in {"/emoji", "/EMOJI"}

\* C20: from the end of ingestion to the written payload, the image of
\* every item is "" or a URL that is not a junk image, whatever the feeds
\* and the pages hold: a junk image found in the metadata of a page is not
\* taken.
C20_NoJunkImage ==
    pc \notin {"start", "ingest"} =>
        \A it \in allItems : it.image = <<>> \/ ~junkUrl(it.image)

\* the payload holds, without image, an item whose feed gave it an emoji
\* image and whose page, fetched with success, offered an emoji image too
C20_Witness ==
    /\ payload.written
    /\ \E i \in 1..Len(task) :
          /\ task[i].outcome = "ok"
          /\ junkUrl(orElse(extractMeta(task[i].html, "og:image"),
                             extractMeta(task[i].html, "og:image:url")))
          /\ \E f \in 1..Len(parsedLog) :
                \E n \in 1..Len(parsedLog[f]) :
                    /\ junkUrl(pickImage(parsedLog[f][n]))
                    /\ normalizeUrl(linkOrGuid(parsedLog[f][n])) = items[toEnrich[i]].link
                    /\ trimStr(parsedLog[f][n].title) = items[toEnrich[i]].title
          /\ \E k \in 1..Len(payload.items) :
                /\ merged[k] = toEnrich[i]
                /\ payload.items[k].image = <<>>
=============================================================================
